---------------------------- MODULE Spec2Model ----------------------------
(* Comment data-access layer (web/lib/firebase/comments) and the market-    *)
(* detail HTTP handler (web/pages/api/v0/slug/[slug].ts) as state machines. *)
(*                                                                          *)
(* JavaScript values are modelled as tuples of length at most one:          *)
(* <<>> is `undefined`, <<v>> is the defined value v.  An object is a       *)
(* function from its keys to such values, so that a key holding            *)
(* `undefined` and an absent key are different things.                      *)
EXTENDS Integers, Sequences, FiniteSets, TLC

VARIABLES
    db,                  \* the document store: a set of [ref, data]
    nextId,              \* source of the fresh ids handed out by doc()
    now,                 \* Date.now() of this process
    recentCommentsQuery, \* the module-scoped query built at import
    calls,               \* the create calls made: arguments, write outcome, status
    log,                 \* the track(...) and setDoc(...) calls made, in order
    lastResult,          \* what a one-shot read just returned
    listeners,           \* the subscriptions made, with what their callbacks got
    http                 \* the request the HTTP handler is serving

vars == <<db, nextId, now, recentCommentsQuery, calls, log, lastResult,
          listeners, http>>

-----------------------------------------------------------------------------
(* Bounds *)

MaxComments == 2      \* create calls per behaviour
MaxDays == 4          \* how far the clock runs past the import, in days
MaxCount == 3         \* largest maxCount passed to listAllComments

-----------------------------------------------------------------------------
(* Values *)

undefined == <<>>

Some(v) == <<v>>

DAY_IN_MS == 24 * 60 * 60 * 1000

\* Date.now() when the module is imported.
ImportTime == 4 * DAY_IN_MS

ParentIds == {"a", "b"}

Users ==
    { [id |-> Some("u1"), name |-> Some("Ann"), username |-> Some("ann"),
       avatarUrl |-> Some("ann.png")],
      [id |-> Some("u2"), name |-> Some("Bob"), username |-> Some("bob"),
       avatarUrl |-> undefined] }

UserIds == {"u1", "u2"}

Content == "doc"

ReplyIds == {undefined, Some("r1")}

Outcomes == {undefined, Some("YES")}

\* The subscription that is followed.  Subscriptions share no state, so
\* what holds of one holds of each.
ListenerIds == {1}

-----------------------------------------------------------------------------
(* common/util/object *)

removeUndefinedProps(obj) ==
    [k \in {key \in DOMAIN obj : obj[key] # undefined} |-> obj[k]]

-----------------------------------------------------------------------------
(* firebase/firestore: references and queries *)

collection(parentCollection, parentId) ==
    [kind |-> "collection", path |-> <<parentCollection, parentId, "comments">>]

collectionGroup(collectionId) ==
    [kind |-> "collectionGroup", path |-> <<collectionId>>]

\* doc(collection): a reference with a fresh id.
doc(coll, id) == [path |-> coll.path, id |-> id]

where(field, op, value) == [field |-> field, op |-> op, value |-> value]

query(from, wheres, lim) ==
    [from |-> from, wheres |-> wheres, orderBy |-> <<"createdTime", "desc">>,
     limit |-> lim]

\* query(q, limit(n)): the same query, bounded.
limit(q, n) == [q EXCEPT !.limit = Some(n)]

InCollection(d, from) ==
    IF from.kind = "collection"
    THEN d.ref.path = from.path
    ELSE d.ref.path[Len(d.ref.path)] = from.path[1]

Satisfies(data, w) ==
    /\ w.field \in DOMAIN data
    /\ IF w.op = "=="
       THEN data[w.field] = Some(w.value)
       ELSE data[w.field][1] > w.value

Matching(q, store) ==
    { d.data : d \in { e \in store :
                         /\ InCollection(e, q.from)
                         /\ q.orderBy[1] \in DOMAIN e.data
                         /\ \A w \in q.wheres : Satisfies(e.data, w) } }

Newest(S) == { c \in S : \A o \in S : c.createdTime[1] >= o.createdTime[1] }

\* Every listing of S by createdTime descending.  createdTime is the only
\* ordering key the queries give, so documents with equal createdTime come
\* in either order.
RECURSIVE Descending(_)
Descending(S) ==
    IF S = {} THEN {<<>>}
    ELSE UNION { { <<c>> \o rest : rest \in Descending(S \ {c}) } : c \in Newest(S) }

Take(s, lim) ==
    IF lim = undefined \/ Len(s) <= lim[1] THEN s ELSE SubSeq(s, 1, lim[1])

\* The result lists a query can produce on a store.
Results(q, store) == { Take(s, q.limit) : s \in Descending(Matching(q, store)) }

-----------------------------------------------------------------------------
(* web/lib/firebase/comments *)

getCommentsCollection(contractId) == collection("contracts", contractId)

getCommentsOnGroupCollection(groupId) == collection("groups", groupId)

\* Variant: the post comments go to the groups collection.
getCommentsOnPostCollectionAsGroup(postId) == collection("groups", postId)

getCommentsOnPostCollection(postId) == collection("posts", postId)

\* `${extraFields.commentType} message`
TemplateMessage(commentType) ==
    CASE commentType = "contract" -> "contract message"
      [] commentType = "group" -> "group message"
      [] commentType = "post" -> "post message"

\* { id, userId, ..., replyToCommentId, ...extraFields }
CommentFields(extraFields, content, user, ref, replyToCommentId) ==
    extraFields @@
    [id |-> Some(ref.id),
     userId |-> user.id,
     content |-> Some(content),
     createdTime |-> Some(now),
     userName |-> user.name,
     userUsername |-> user.username,
     userAvatarUrl |-> user.avatarUrl,
     replyToCommentId |-> replyToCommentId]

\* Variant: the record is written as assembled, undefined props and all.
CommentRecordUnstripped(extraFields, content, user, ref, replyToCommentId) ==
    CommentFields(extraFields, content, user, ref, replyToCommentId)

CommentRecord(extraFields, content, user, ref, replyToCommentId) ==
    removeUndefinedProps(CommentFields(extraFields, content, user, ref, replyToCommentId))

TrackEvent(surfaceId, extraFields, user, ref, replyToCommentId, onContractWithBounty) ==
    [kind |-> "track",
     name |-> TemplateMessage(extraFields.commentType[1]),
     props |-> removeUndefinedProps(
         [user |-> Some(user),
          commentId |-> Some(ref.id),
          surfaceId |-> Some(surfaceId),
          replyToCommentId |-> replyToCommentId,
          onContractWithBounty |->
              IF extraFields.commentType = Some("contract")
              THEN onContractWithBounty
              ELSE undefined])]

SetDocCall(ref, data) == [kind |-> "setDoc", ref |-> ref, data |-> data]

\* Variant: the event is tracked only once the write is out.
CreateCommentEventsWriteFirst(track, write) == <<write, track>>

\* What one createComment call does before it awaits: track(...), then setDoc(...).
CreateCommentEvents(track, write) == <<track, write>>

\* The synchronous part of createComment, everything up to `await setDoc`.
createComment(surfaceId, extraFields, content, user, ref, replyToCommentId, onContractWithBounty) ==
    /\ log' = log \o CreateCommentEvents(
                  TrackEvent(surfaceId, extraFields, user, ref, replyToCommentId,
                             onContractWithBounty),
                  SetDocCall(ref, CommentRecord(extraFields, content, user, ref,
                                                replyToCommentId)))
    /\ nextId' = nextId + 1
    /\ lastResult' = [op |-> "none"]
    /\ UNCHANGED <<db, now, recentCommentsQuery, listeners, http>>

\* A create call enters: its arguments, its write not yet settled.
Enter(fn, args) ==
    calls' = Append(calls, [fn |-> fn, args |-> args, write |-> "pending", status |-> "pending"])

createCommentOnContract(contractId, content, user, onContractWithBounty, answerOutcome, replyToCommentId) ==
    /\ nextId <= MaxComments
    /\ Enter("createCommentOnContract",
             [parentId |-> contractId, content |-> content, user |-> user,
              onContractWithBounty |-> Some(onContractWithBounty),
              answerOutcome |-> answerOutcome, replyToCommentId |-> replyToCommentId])
    /\ LET ref == doc(getCommentsCollection(contractId), nextId)
           onContract == [commentType |-> Some("contract"),
                          contractId |-> Some(contractId),
                          answerOutcome |-> answerOutcome]
       IN createComment(contractId, onContract, content, user, ref,
                        replyToCommentId, Some(onContractWithBounty))

createCommentOnGroup(groupId, content, user, replyToCommentId) ==
    /\ nextId <= MaxComments
    /\ Enter("createCommentOnGroup",
             [parentId |-> groupId, content |-> content, user |-> user,
              replyToCommentId |-> replyToCommentId])
    /\ LET ref == doc(getCommentsOnGroupCollection(groupId), nextId)
           onGroup == [commentType |-> Some("group"), groupId |-> Some(groupId)]
       IN createComment(groupId, onGroup, content, user, ref,
                        replyToCommentId, undefined)

createCommentOnPost(postId, content, user, replyToCommentId) ==
    /\ nextId <= MaxComments
    /\ Enter("createCommentOnPost",
             [parentId |-> postId, content |-> content, user |-> user,
              replyToCommentId |-> replyToCommentId])
    /\ LET ref == doc(getCommentsOnPostCollection(postId), nextId)
           onPost == [postId |-> Some(postId), commentType |-> Some("post")]
       IN createComment(postId, onPost, content, user, ref,
                        replyToCommentId, undefined)

LogEntries == { log[i] : i \in 1..Len(log) }

\* The write a create call issued.
Issued(id) == CHOOSE e \in LogEntries : e.kind = "setDoc" /\ e.ref.id = id

\* A listener whose query matches a written document gets a new snapshot.
Notify(l, written) ==
    IF l.active /\ Matching(l.q, {written}) # {} THEN [l EXCEPT !.dirty = TRUE] ELSE l

\* return await setDoc(ref, comment): the call settles as the write did.
Awaited(ok) == IF ok THEN "resolved" ELSE "rejected"

\* setDoc(ref, comment) settles: the document is written, overwriting what
\* was at ref, or the store rejects the write; the create call awaiting it
\* then settles.
setDocSettles(id, ok) ==
    /\ id \in DOMAIN calls
    /\ calls[id].write = "pending"
    /\ LET w == Issued(id)
           written == [ref |-> w.ref, data |-> w.data]
       IN IF ok
          THEN /\ db' = { d \in db : d.ref # w.ref } \cup {written}
               /\ listeners' = [i \in DOMAIN listeners |-> Notify(listeners[i], written)]
          ELSE UNCHANGED <<db, listeners>>
    /\ calls' = [calls EXCEPT ![id].write = IF ok THEN "written" ELSE "failed",
                              ![id].status = Awaited(ok)]
    /\ lastResult' = [op |-> "none"]
    /\ UNCHANGED <<nextId, now, recentCommentsQuery, log, http>>

\* getValues(q): one round trip, the data of the documents the query matched.
getValues(op, args, q) ==
    /\ \E r \in Results(q, db) :
         lastResult' = [op |-> op, args |-> args, result |-> r]
    /\ UNCHANGED <<db, nextId, now, recentCommentsQuery, calls, log, listeners, http>>

\* maxCount ? query(q, limit(maxCount)) : q
listAllCommentsQuery(contractId, maxCount) ==
    LET q == query(getCommentsCollection(contractId), {}, undefined)
    IN IF maxCount # undefined /\ maxCount # Some(0) THEN limit(q, maxCount[1]) ELSE q

listAllComments(contractId, maxCount) ==
    getValues("listAllComments", <<contractId, maxCount>>, listAllCommentsQuery(contractId, maxCount))

listAllCommentsOnGroupQuery(groupId) ==
    query(getCommentsOnGroupCollection(groupId), {}, undefined)

listAllCommentsOnGroup(groupId) ==
    getValues("listAllCommentsOnGroup", <<groupId>>, listAllCommentsOnGroupQuery(groupId))

listAllCommentsOnPostQuery(postId) ==
    query(getCommentsOnPostCollection(postId), {}, undefined)

listAllCommentsOnPost(postId) ==
    getValues("listAllCommentsOnPost", <<postId>>, listAllCommentsOnPostQuery(postId))

\* listenForValues(q, setValues): subscribes; the first snapshot is due.
listenForValues(op, args, q) ==
    /\ Len(listeners) + 1 \in ListenerIds
    /\ listeners' = Append(listeners,
           [op |-> op, args |-> args, q |-> q, active |-> TRUE, dirty |-> TRUE,
            count |-> 0, values |-> undefined])
    /\ lastResult' = [op |-> "none"]
    /\ UNCHANGED <<db, nextId, now, recentCommentsQuery, calls, log, http>>

listenForCommentsOnContractQuery(contractId) ==
    query(getCommentsCollection(contractId), {}, undefined)

listenForCommentsOnContract(contractId) ==
    listenForValues("listenForCommentsOnContract", <<contractId>>, listenForCommentsOnContractQuery(contractId))

\* Variant: the group listener watches the post of the same id.
listenForCommentsOnGroupQueryAsPost(groupId) ==
    query(getCommentsOnPostCollection(groupId), {}, undefined)

listenForCommentsOnGroupQuery(groupId) ==
    query(getCommentsOnGroupCollection(groupId), {}, undefined)

listenForCommentsOnGroup(groupId) ==
    listenForValues("listenForCommentsOnGroup", <<groupId>>, listenForCommentsOnGroupQuery(groupId))

listenForCommentsOnPostQuery(postId) ==
    query(getCommentsOnPostCollection(postId), {}, undefined)

listenForCommentsOnPost(postId) ==
    listenForValues("listenForCommentsOnPost", <<postId>>, listenForCommentsOnPostQuery(postId))

\* The snapshot callback: setValues(values) with the query's current result.
Snapshot(i) ==
    /\ i \in DOMAIN listeners
    /\ listeners[i].active
    /\ listeners[i].dirty
    /\ \E r \in Results(listeners[i].q, db) :
         listeners' = [listeners EXCEPT ![i].dirty = FALSE,
                                        ![i].count = @ + 1,
                                        ![i].values = Some(r)]
    /\ lastResult' = [op |-> "none"]
    /\ UNCHANGED <<db, nextId, now, recentCommentsQuery, calls, log, http>>

\* The caller invokes the handle that the listen function returned.
Unsubscribe(i) ==
    /\ i \in DOMAIN listeners
    /\ listeners[i].active
    /\ listeners' = [listeners EXCEPT ![i].active = FALSE, ![i].dirty = FALSE]
    /\ lastResult' = [op |-> "none"]
    /\ UNCHANGED <<db, nextId, now, recentCommentsQuery, calls, log, http>>

\* where('createdTime', '>', Date.now() - 3 * DAY_IN_MS)
RecentCommentsQueryAt(t) ==
    query(collectionGroup("comments"), {where("createdTime", ">", t - 3 * DAY_IN_MS)}, undefined)

\* Variant: the query is built anew, with the bound at the time of the call.
RecentCommentsQueryRebuilt == RecentCommentsQueryAt(now)

\* The query both accessors pass on: the module-scoped constant.
RecentCommentsQuery == recentCommentsQuery

getRecentComments ==
    getValues("getRecentComments", <<>>, RecentCommentsQuery)

listenForRecentComments ==
    listenForValues("listenForRecentComments", <<>>, RecentCommentsQuery)

\* Variant: the commentType filter is left out.
getUserCommentsQueryAnyType(userId) ==
    query(collectionGroup("comments"), {where("userId", "==", userId)}, undefined)

getUserCommentsQuery(userId) ==
    query(collectionGroup("comments"), {where("userId", "==", userId), where("commentType", "==", "contract")}, undefined)

\* A caller runs the query that getUserCommentsQuery handed back.
runUserCommentsQuery(userId) ==
    getValues("getUserCommentsQuery", <<userId>>, getUserCommentsQuery(userId))

\* Wall-clock time passes.
Tick(days) ==
    /\ now + days * DAY_IN_MS <= ImportTime + MaxDays * DAY_IN_MS
    /\ now' = now + days * DAY_IN_MS
    /\ lastResult' = [op |-> "none"]
    /\ UNCHANGED <<db, nextId, recentCommentsQuery, calls, log, listeners, http>>

-----------------------------------------------------------------------------
(* web/pages/api/v0/slug/[slug].ts *)

Slugs == {"valid-slug", "unknown-slug"}

\* The markets of the store.
Contracts == { [id |-> "a", slug |-> "valid-slug"] }

\* What listAllBets can resolve to.
BetLists == { <<>>, <<"bet1">> }

\* No request has reached the handler; res is untouched.
NoRequest ==
    [pc |-> "idle", slug |-> undefined, lookup |-> "pending", contract |-> undefined,
     bets |-> "none", comments |-> "none", betsValue |-> undefined,
     commentsValue |-> undefined, headers |-> {}, sent |-> <<>>]

\* web/lib/api/cors with CORS_UNRESTRICTED: any origin is allowed.
applyCorsHeaders(headers) == headers \cup {<<"Access-Control-Allow-Origin", "*">>}

\* web/lib/firebase/contracts: the market of that slug, if there is one.
getContractFromSlug(slug) ==
    IF \E c \in Contracts : c.slug = slug
    THEN Some(CHOOSE c \in Contracts : c.slug = slug)
    ELSE undefined

\* ../_types: the public projection of a market.
toFullMarket(contract) == contract

\* res.status(code).json(body): a response leaves with the headers set so far.
Respond(h, status, body) ==
    [h EXCEPT !.sent = Append(@, [status |-> status, body |-> body, headers |-> h.headers]),
              !.pc = "returned"]

\* Variant: the error body goes out with the default status.
NotFoundDefaultStatus(h) == Respond(h, 200, [error |-> "Contract not found"])

\* res.status(404).json({ error: 'Contract not found' }); return
NotFound(h) == Respond(h, 404, [error |-> "Contract not found"])

\* Variant: the caching directive is not set.
SetCacheControlSkipped(h) == h

\* res.setHeader('Cache-Control', 'max-age=0')
SetCacheControl(h) == [h EXCEPT !.headers = @ \cup {<<"Cache-Control", "max-age=0">>}]

\* return res.status(200).json({ comments, bets, ...toFullMarket(contract) })
Success(h) ==
    Respond(SetCacheControl(h), 200,
            [comments |-> h.commentsValue[1], bets |-> h.betsValue[1],
             market |-> toFullMarket(h.contract[1])])

\* Variant: the handler goes on as soon as the bets are there.
PromiseAllBetsOnly(h) ==
    IF h.pc # "join" THEN h
    ELSE IF h.bets = "rejected" THEN [h EXCEPT !.pc = "rejected"]
    ELSE IF h.bets = "fulfilled"
         THEN Success([h EXCEPT !.commentsValue = IF @ = undefined THEN Some(<<>>) ELSE @])
    ELSE h

\* await Promise.all([...]) and what follows it: the handler rejects when
\* the first fetch rejects, and goes on to respond when both are fulfilled.
PromiseAll(h) ==
    IF h.pc # "join" THEN h
    ELSE IF h.bets = "rejected" \/ h.comments = "rejected" THEN [h EXCEPT !.pc = "rejected"]
    ELSE IF h.bets = "fulfilled" /\ h.comments = "fulfilled" THEN Success(h)
    ELSE h

\* [listAllBets(contract.id), listAllComments(contract.id)]: both calls are
\* made, and both reads are out, before Promise.all is awaited.
StartFetches(h) == [h EXCEPT !.bets = "pending", !.comments = "pending", !.pc = "join"]

\* A request for a slug reaches the handler, which awaits applyCorsHeaders.
handler(slug) ==
    /\ http.pc = "idle"
    /\ http' = [http EXCEPT !.pc = "cors", !.slug = Some(slug)]
    /\ UNCHANGED <<db, nextId, now, recentCommentsQuery, calls, log, lastResult, listeners>>

\* applyCorsHeaders resolves; the handler calls getContractFromSlug and awaits it.
applyCorsHeadersSettles ==
    /\ http.pc = "cors"
    /\ http' = [http EXCEPT !.headers = applyCorsHeaders(@), !.pc = "lookup"]
    /\ UNCHANGED <<db, nextId, now, recentCommentsQuery, calls, log, lastResult, listeners>>

\* getContractFromSlug settles: it rejects, and so does the handler; or it
\* resolves, to no market (404) or to a market (the two fetches start).
getContractFromSlugSettles(ok) ==
    /\ http.pc = "lookup"
    /\ http' = IF ~ok THEN [http EXCEPT !.lookup = "failed", !.pc = "rejected"]
               ELSE LET contract == getContractFromSlug(http.slug[1])
                    IN IF contract = undefined
                       THEN NotFound([http EXCEPT !.lookup = "missing"])
                       ELSE StartFetches([http EXCEPT !.lookup = "found", !.contract = contract])
    /\ UNCHANGED <<db, nextId, now, recentCommentsQuery, calls, log, lastResult, listeners>>

\* listAllBets(contract.id) settles.
listAllBetsSettles(ok, bets) ==
    /\ http.bets = "pending"
    /\ http' = PromiseAll(IF ok THEN [http EXCEPT !.bets = "fulfilled", !.betsValue = Some(bets)]
                          ELSE [http EXCEPT !.bets = "rejected"])
    /\ UNCHANGED <<db, nextId, now, recentCommentsQuery, calls, log, lastResult, listeners>>

\* listAllComments(contract.id) settles: with the market's comments, all of
\* them and newest first, or with the failure of the read.
listAllCommentsSettles(ok) ==
    /\ http.comments = "pending"
    /\ \E r \in Results(listAllCommentsQuery(http.contract[1].id, undefined), db) :
         http' = PromiseAll(IF ok THEN [http EXCEPT !.comments = "fulfilled", !.commentsValue = Some(r)]
                            ELSE [http EXCEPT !.comments = "rejected"])
    /\ UNCHANGED <<db, nextId, now, recentCommentsQuery, calls, log, lastResult, listeners>>

-----------------------------------------------------------------------------

Init ==
    /\ db = {}
    /\ nextId = 1
    /\ now = ImportTime
    /\ recentCommentsQuery = RecentCommentsQueryAt(ImportTime)
    /\ calls = <<>>
    /\ log = <<>>
    /\ lastResult = [op |-> "none"]
    /\ listeners = <<>>
    /\ http = NoRequest

MaxCounts == {undefined} \cup { Some(k) : k \in 0..MaxCount }

\* Comment creation with every shape of input, and the settling of the writes.
NextCreate ==
    \/ \E u \in Users, b \in BOOLEAN, o \in Outcomes, r \in ReplyIds :
         createCommentOnContract("a", Content, u, b, o, r)
    \/ \E u \in Users, r \in ReplyIds : createCommentOnGroup("a", Content, u, r)
    \/ \E u \in Users, r \in ReplyIds : createCommentOnPost("a", Content, u, r)
    \/ \E id \in 1..MaxComments, ok \in BOOLEAN : setDocSettles(id, ok)

SpecCreate == Init /\ [][NextCreate]_vars

Ann == CHOOSE u \in Users : u.id = Some("u1")

\* Creation and one-shot listing, per parent.
NextList ==
    \/ \E p \in ParentIds : createCommentOnContract(p, Content, Ann, FALSE, undefined, undefined)
    \/ \E p \in ParentIds : createCommentOnGroup(p, Content, Ann, undefined)
    \/ \E p \in ParentIds : createCommentOnPost(p, Content, Ann, undefined)
    \/ \E id \in 1..MaxComments, ok \in BOOLEAN : setDocSettles(id, ok)
    \/ \E p \in ParentIds : listAllComments(p, undefined)
    \/ \E p \in ParentIds : listAllCommentsOnGroup(p)
    \/ \E p \in ParentIds : listAllCommentsOnPost(p)
    \/ Tick(MaxDays)

SpecList == Init /\ [][NextList]_vars

\* Listing a market's comments with and without a maximum count.
NextLimit ==
    \/ \E p \in ParentIds : createCommentOnContract(p, Content, Ann, FALSE, undefined, undefined)
    \/ \E id \in 1..MaxComments, ok \in BOOLEAN : setDocSettles(id, ok)
    \/ \E p \in ParentIds, n \in MaxCounts : listAllComments(p, n)
    \/ Tick(MaxDays)

SpecLimit == Init /\ [][NextLimit]_vars

\* Creation by several users and the per-user query.
NextUser ==
    \/ \E p \in ParentIds, u \in Users : createCommentOnContract(p, Content, u, FALSE, undefined, undefined)
    \/ \E u \in Users : createCommentOnGroup("a", Content, u, undefined)
    \/ \E u \in Users : createCommentOnPost("a", Content, u, undefined)
    \/ \E id \in 1..MaxComments, ok \in BOOLEAN : setDocSettles(id, ok)
    \/ \E u \in UserIds : runUserCommentsQuery(u)
    \/ Tick(MaxDays)

SpecUser == Init /\ [][NextUser]_vars

\* Subscriptions to a parent's comments, with writes going on.
NextListen ==
    \/ createCommentOnContract("a", Content, Ann, FALSE, undefined, undefined)
    \/ createCommentOnGroup("a", Content, Ann, undefined)
    \/ createCommentOnPost("a", Content, Ann, undefined)
    \/ \E id \in 1..MaxComments, ok \in BOOLEAN : setDocSettles(id, ok)
    \/ \E p \in ParentIds : listenForCommentsOnContract(p)
    \/ \E p \in ParentIds : listenForCommentsOnGroup(p)
    \/ \E p \in ParentIds : listenForCommentsOnPost(p)
    \/ \E i \in ListenerIds : Snapshot(i)
    \/ \E i \in ListenerIds : Unsubscribe(i)
    \/ Tick(MaxDays)

\* A snapshot that is due to a live subscription is delivered.
SnapshotsDelivered == \A i \in ListenerIds : WF_vars(Snapshot(i))

SpecListen == Init /\ [][NextListen]_vars /\ SnapshotsDelivered

\* A comment that was written, days before this process imported the
\* module, by another one.
OldComment(id, days) ==
    [ref |-> doc(getCommentsCollection("a"), id),
     data |-> [id |-> Some(id), userId |-> Some("u2"), content |-> Some(Content),
               createdTime |-> Some(ImportTime - days * DAY_IN_MS),
               userName |-> Some("Bob"), userUsername |-> Some("bob"),
               commentType |-> Some("contract"), contractId |-> Some("a")]]

\* The store at import: empty, or holding a comment three days old to the
\* millisecond and one two days old.
InitRecent ==
    /\ db \in {{}, {OldComment(0, 3), OldComment(-1, 2)}}
    /\ nextId = 1
    /\ now = ImportTime
    /\ recentCommentsQuery = RecentCommentsQueryAt(ImportTime)
    /\ calls = <<>>
    /\ log = <<>>
    /\ lastResult = [op |-> "none"]
    /\ listeners = <<>>
    /\ http = NoRequest

\* The recent-comments accessors, with writes going on and days passing.
NextRecent ==
    \/ createCommentOnContract("a", Content, Ann, FALSE, undefined, undefined)
    \/ createCommentOnGroup("a", Content, Ann, undefined)
    \/ createCommentOnPost("a", Content, Ann, undefined)
    \/ \E id \in 1..MaxComments, ok \in BOOLEAN : setDocSettles(id, ok)
    \/ getRecentComments
    \/ listenForRecentComments
    \/ \E i \in ListenerIds : Snapshot(i)
    \/ \E i \in ListenerIds : Unsubscribe(i)
    \/ Tick(3)

SpecRecent == InitRecent /\ [][NextRecent]_vars

\* One request to the market-detail endpoint, with comments being written.
NextHandler ==
    \/ createCommentOnContract("a", Content, Ann, FALSE, undefined, undefined)
    \/ \E id \in 1..MaxComments, ok \in BOOLEAN : setDocSettles(id, ok)
    \/ \E slug \in Slugs : handler(slug)
    \/ applyCorsHeadersSettles
    \/ \E ok \in BOOLEAN : getContractFromSlugSettles(ok)
    \/ \E ok \in BOOLEAN, bets \in BetLists : listAllBetsSettles(ok, bets)
    \/ \E ok \in BOOLEAN : listAllCommentsSettles(ok)
    \/ Tick(MaxDays)

SpecHandler == Init /\ [][NextHandler]_vars

-----------------------------------------------------------------------------
(* Vocabulary of the properties *)

Min(a, b) == IF a <= b THEN a ELSE b

\* A null placeholder, which is no defined value and not undefined either.
null == <<"null", "null">>

Elements(s) == { s[i] : i \in 1..Len(s) }

NoRepeat(s) == Cardinality(Elements(s)) = Len(s)

IsDescending(s) ==
    \A i, j \in 1..Len(s) : i < j => s[i].createdTime[1] >= s[j].createdTime[1]

AllComments == { d.data : d \in db }

\* The comments stored under <parentCollection>/<parentId>/comments.
StoredUnder(parentCollection, parentId) ==
    { d.data : d \in { e \in db : e.ref.path = <<parentCollection, parentId, "comments">> } }

\* The parent collection a create or list function is about.
CollectionOf(fn) ==
    CASE fn \in {"createCommentOnContract", "listAllComments", "listenForCommentsOnContract"} -> "contracts"
      [] fn \in {"createCommentOnGroup", "listAllCommentsOnGroup", "listenForCommentsOnGroup"} -> "groups"
      [] fn \in {"createCommentOnPost", "listAllCommentsOnPost", "listenForCommentsOnPost"} -> "posts"

TypeOf(fn) ==
    CASE fn = "createCommentOnContract" -> "contract"
      [] fn = "createCommentOnGroup" -> "group"
      [] fn = "createCommentOnPost" -> "post"

ParentField(fn) ==
    CASE fn = "createCommentOnContract" -> "contractId"
      [] fn = "createCommentOnGroup" -> "groupId"
      [] fn = "createCommentOnPost" -> "postId"

\* An unbounded one-shot listing of a parent's comments has just returned.
Listed ==
    /\ lastResult.op \in {"listAllComments", "listAllCommentsOnGroup", "listAllCommentsOnPost"}
    /\ lastResult.op = "listAllComments" => lastResult.args[2] = undefined

-----------------------------------------------------------------------------
(* Properties *)

\* C4 (as stated): listAllComments(contractId, N) returns exactly
\* min(N, total) comments of that market for every supplied N >= 0,
\* 0 included, all of them when maxCount is omitted, newest first.
C4_ListAllCommentsBounded ==
    lastResult.op = "listAllComments" =>
        LET n == lastResult.args[2]
            all == StoredUnder("contracts", lastResult.args[1])
            r == lastResult.result
        IN /\ Elements(r) \subseteq all
           /\ NoRepeat(r)
           /\ IsDescending(r)
           /\ Len(r) = IF n = undefined THEN Cardinality(all)
                       ELSE Min(n[1], Cardinality(all))

\* C5: no stored comment holds a field that is undefined or null; a field
\* passed as undefined (replyToCommentId, answerOutcome, the user's avatar)
\* is absent from the stored record, and every field passed with a value is
\* stored with that value.
C5_NoUndefinedPersisted ==
    \A d \in db :
        LET c == calls[d.ref.id]
            a == c.args
            x == d.data
            Kept(key, v) == IF v = undefined THEN key \notin DOMAIN x
                            ELSE key \in DOMAIN x /\ x[key] = v
        IN /\ \A k \in DOMAIN x : x[k] # undefined /\ x[k] # null
           /\ Kept("replyToCommentId", a.replyToCommentId)
           /\ Kept("answerOutcome",
                   IF c.fn = "createCommentOnContract" THEN a.answerOutcome ELSE undefined)
           /\ Kept("userAvatarUrl", a.user.avatarUrl)
           /\ Kept("userId", a.user.id)
           /\ Kept("userName", a.user.name)
           /\ Kept("userUsername", a.user.username)
           /\ Kept("content", Some(a.content))
           /\ Kept("id", Some(d.ref.id))
           /\ Kept("commentType", Some(TypeOf(c.fn)))
           /\ Kept(ParentField(c.fn), Some(a.parentId))
           /\ "createdTime" \in DOMAIN x

C5_Witness ==
    \E d \in db :
        /\ calls[d.ref.id].fn = "createCommentOnContract"
        /\ calls[d.ref.id].args.replyToCommentId = undefined
        /\ calls[d.ref.id].args.answerOutcome = undefined
        /\ DOMAIN d.data = {"id", "userId", "content", "createdTime", "userName",
                            "userUsername", "userAvatarUrl", "commentType", "contractId"}

\* C6: every create call tracks exactly one event, named after its comment
\* type, before it issues its single write; the event is there whether the
\* write succeeds or fails; a failed write rejects the call and is not
\* issued again; only a market comment's event carries the bounty flag.
C6_TrackBeforeWrite ==
    \A id \in DOMAIN calls :
        LET tracks == { i \in 1..Len(log) :
                          log[i].kind = "track" /\ log[i].props.commentId = Some(id) }
            writes == { i \in 1..Len(log) :
                          log[i].kind = "setDoc" /\ log[i].ref.id = id }
        IN /\ Cardinality(tracks) = 1
           /\ Cardinality(writes) = 1
           /\ \A t \in tracks, w \in writes :
                /\ t < w
                /\ log[t].name = CASE calls[id].fn = "createCommentOnContract" -> "contract message"
                                   [] calls[id].fn = "createCommentOnGroup" -> "group message"
                                   [] calls[id].fn = "createCommentOnPost" -> "post message"
                /\ "onContractWithBounty" \in DOMAIN log[t].props
                       => calls[id].fn = "createCommentOnContract"
           /\ calls[id].write = "failed" =>
                /\ calls[id].status = "rejected"
                /\ \A d \in db : d.ref.id # id
           /\ calls[id].write = "written" => calls[id].status = "resolved"

C6_Witness ==
    \E id \in DOMAIN calls, i \in 1..Len(log) :
        /\ calls[id].status = "rejected"
        /\ log[i].kind = "track"
        /\ log[i].props.commentId = Some(id)
        /\ log[i].name = "contract message"
        /\ "onContractWithBounty" \in DOMAIN log[i].props

\* Whether the comment o keeps the comment c from the head of a listing:
\* when it is newer and, with `ties`, also when it is as new.
KeepsFromHead(o, c, ties) ==
    \/ o.createdTime[1] > c.createdTime[1]
    \/ ties /\ o.createdTime[1] = c.createdTime[1]

\* What C7 says of a listing of parent P: a comment whose create call on P
\* resolved heads the listing unless another comment of P keeps it from
\* the head, and a comment created on another parent is not in it.
CreatedThenListedFirst(ties) ==
    Listed =>
        LET coll == CollectionOf(lastResult.op)
            p == lastResult.args[1]
            all == StoredUnder(coll, p)
            r == lastResult.result
        IN \A id \in DOMAIN calls :
             calls[id].status = "resolved" =>
                LET mine == { c \in AllComments : c.id = Some(id) }
                IN IF CollectionOf(calls[id].fn) = coll /\ calls[id].args.parentId = p
                   THEN /\ mine # {}
                        /\ \A c \in mine :
                             (\A o \in all \ {c} : ~KeepsFromHead(o, c, ties)) =>
                                 Len(r) > 0 /\ r[1] = c
                   ELSE \A c \in mine : c \notin Elements(r)

\* C7 (as stated): after a create on P resolves, a one-shot listing of P
\* has the new comment first provided no other comment of P has a newer
\* createdTime, and no listing of another parent has it.
C7_NewCommentListedFirst ==
    CreatedThenListedFirst(FALSE)

\* C7 (amended): ... provided every other comment of P has an older
\* createdTime (none newer and none equal).
C7_StrictlyNewestListedFirst ==
    CreatedThenListedFirst(TRUE)

C7_Witness ==
    /\ lastResult.op = "listAllCommentsOnPost"
    /\ Len(lastResult.result) = 2
    /\ lastResult.result[1].createdTime[1] > lastResult.result[2].createdTime[1]
    /\ \A id \in DOMAIN calls : calls[id].status = "resolved"

\* C9: running getUserCommentsQuery(u) returns exactly the stored comments,
\* under any parent, whose userId is u and whose commentType is 'contract',
\* newest first: no group or post comment, no comment of another user.
C9_UserContractComments ==
    lastResult.op = "getUserCommentsQuery" =>
        LET u == lastResult.args[1]
            r == lastResult.result
        IN /\ Elements(r) = { c \in AllComments :
                                c.userId = Some(u) /\ c.commentType = Some("contract") }
           /\ NoRepeat(r)
           /\ IsDescending(r)

C9_Witness ==
    /\ lastResult.op = "getUserCommentsQuery"
    /\ Len(lastResult.result) = 1
    /\ \E c \in AllComments :
         /\ c.userId = Some(lastResult.args[1])
         /\ c.commentType # Some("contract")

\* The listing s is all of the comments S, each once, newest first.
FullListing(s, S) == Elements(s) = S /\ NoRepeat(s) /\ IsDescending(s)

\* The callback of listener i is invoked in this step.
Invoked(i) ==
    /\ i \in DOMAIN listeners
    /\ listeners'[i].count > listeners[i].count

\* Listener i is subscribed and has not been cancelled.
Live(i) == i \in DOMAIN listeners /\ listeners[i].active

\* The write of create call id is committed and is one that the live
\* listener i on a parent's comments is subscribed to.
CommittedFor(i, id) ==
    /\ i \in DOMAIN listeners
    /\ id \in DOMAIN calls
    /\ listeners[i].active
    /\ calls[id].write = "written"
    /\ CollectionOf(calls[id].fn) = CollectionOf(listeners[i].op)
    /\ calls[id].args.parentId = listeners[i].args[1]

\* The last callback of listener i got the comment of create call id.
Received(i, id) ==
    /\ i \in DOMAIN listeners
    /\ listeners[i].values # undefined
    /\ \E c \in Elements(listeners[i].values[1]) : c.id = Some(id)

SinceImportWindow == { c \in AllComments : c.createdTime[1] > ImportTime - 3 * DAY_IN_MS }

Responses == { http.sent[i] : i \in 1..Len(http.sent) }

Cors == <<"Access-Control-Allow-Origin", "*">>

NoCache == <<"Cache-Control", "max-age=0">>

\* C1: when the slug lookup resolves to no market, the handler responds
\* 404 with { error: 'Contract not found' }, once, and neither listAllBets
\* nor listAllComments is called.
C1_NotFoundAndNoFetch ==
    (http.lookup \in {"missing", "found"} /\ http.contract = undefined) =>
        /\ Len(http.sent) = 1
        /\ http.sent[1].status = 404
        /\ http.sent[1].body = [error |-> "Contract not found"]
        /\ http.bets = "none"
        /\ http.comments = "none"
        /\ http.pc = "returned"

C1_Witness ==
    /\ http.slug = Some("unknown-slug")
    /\ http.pc = "returned"
    /\ db # {}

\* C2: for a slug that resolves to a market both fetches are started
\* together, before either is awaited; a 200 is sent only once both have
\* completed, whichever completes first, and is sent then, with what they
\* returned; if either fails nothing is sent and the request fails.
C2_JoinBeforeResponse ==
    /\ (http.bets = "none") = (http.comments = "none")
    /\ http.lookup = "found" => http.bets # "none"
    /\ \A r \in Responses :
         r.status = 200 =>
            /\ http.bets = "fulfilled" /\ http.comments = "fulfilled"
            /\ r.body.bets = http.betsValue[1]
            /\ r.body.comments = http.commentsValue[1]
    /\ (http.bets = "rejected" \/ http.comments = "rejected") =>
            http.sent = <<>> /\ http.pc = "rejected"
    /\ (http.bets = "fulfilled" /\ http.comments = "fulfilled") =>
            Len(http.sent) = 1 /\ http.sent[1].status = 200

C2_Witness ==
    /\ http.bets = "fulfilled"
    /\ http.comments = "rejected"
    /\ http.pc = "rejected"
    /\ http.sent = <<>>

\* C3 (as stated): every response sent, the 404 as well as the 200,
\* carries the permissive CORS headers and Cache-Control: max-age=0.
C3_EveryResponseCorsAndNoCache ==
    \A r \in Responses : Cors \in r.headers /\ NoCache \in r.headers

\* C3 (amended): every response sent carries the permissive CORS headers;
\* the 200 response carries Cache-Control: max-age=0 as well, the 404
\* response does not.
C3_CorsAlwaysNoCacheOnSuccess ==
    \A r \in Responses :
        /\ Cors \in r.headers
        /\ r.status \in {200, 404}
        /\ (NoCache \in r.headers) = (r.status = 200)

C3_Witness ==
    \E r \in Responses :
        /\ r.status = 200
        /\ r.headers = {Cors, NoCache}
        /\ r.body.comments # <<>>

=============================================================================
